---------------------------- MODULE Spec2Model ----------------------------
(***************************************************************************)
(* Stock sentiment demo backend (exa-labs/Demos, mizuho-applet).           *)
(*                                                                         *)
(* The model follows the request handler of POST /api/search in the       *)
(* server variants of the repository (src/unnamed/part_000: no company     *)
(* resolution, 10/5 slicing; src/mizuho-applet/server.js: company          *)
(* resolution, 7/3 slicing; src/unnamed/part_002: company resolution,      *)
(* content fetch and per-item summaries; the two-request variant, whose    *)
(* server file is not part of src/ and is modelled from spec.md section    *)
(* 4.5), together with the helper functions classifySentiment,             *)
(* countSentiments, getOpenAI, generateSummary and lookupCompanyName.       *)
(*                                                                         *)
(* Specifications: Spec (one request after the other, all variants),       *)
(* SpecClassify, SpecCount and SpecShape (classifySentiment,               *)
(* countSentiments and result shaping run on their own), SpecEnrich (POST  *)
(* /api/enrich of the two-request variant, modelled from spec.md),         *)
(* SpecPair (two requests in flight at once), SpecClient (the page         *)
(* scripts src/public/app.js and src/unnamed/part_001, with the server's   *)
(* responses as their input) and SpecBar (displaySentimentBar run on its   *)
(* own).                                                                   *)
(*                                                                         *)
(* JavaScript values are records [type, str]: str is what String(v) (and   *)
(* so the property-key conversion) gives.  Outbound calls (provider,       *)
(* oracle) are pending promises that the environment settles with any      *)
(* outcome drawn from a bounded set.  A text is known by the provider text *)
(* it was cut from, the offset of the cut and its length.  Query strings,  *)
(* the exchange field, dates and the two elapsed-time fields never         *)
(* influence control flow and are left out of the state.                   *)
(***************************************************************************)
EXTENDS Integers, Sequences, FiniteSets, TLC

\* ------------------------------------------------------------------ bounds

\* Most results one provider search returns in the request model.
MaxResults == 1

\* Longest item list given to classifySentiment / countSentiments on their own.
MaxItems == 2

\* Most results of one provider search when shaping is run on its own.
MaxShape == 16

\* ------------------------------------------------------- JavaScript values

Str(s) == [type |-> "string", str |-> s]
Num(s) == [type |-> "number", str |-> s]
Undefined == [type |-> "undefined", str |-> "undefined"]
Null == [type |-> "null", str |-> "null"]
\* A one-element array holding the string s: String([s]) = s.
Arr1(s) == [type |-> "array", str |-> s]

\* ToBoolean, as used by !x and by x || y.
Truthy(v) ==
  CASE v.type = "string" -> v.str # ""
    [] v.type = "number" -> v.str \notin {"0", "NaN"}
    [] v.type \in {"undefined", "null"} -> FALSE
    [] OTHER -> TRUE

\* The closed set of sentiment labels.
Labels == {"bullish", "neutral", "bearish"}

IsLabel(v) == v.type = "string" /\ v.str \in Labels

\* String.prototype.toUpperCase on the tickers of the model.
ToUpperCase(s) ==
  CASE s = "aapl" -> "AAPL"
    [] s = "msft" -> "MSFT"
    [] OTHER -> s

\* ------------------------------------------------------------ getOpenAI

\* getOpenAI without the !openai test: every call with a credential
\* constructs a client, the second one another object than the first.
GetOpenAIAlwaysNew(handle, key) ==
  IF ~key THEN handle
  ELSE IF handle = "null" THEN "client" ELSE "another client"

\* The handle after getOpenAI() ran; the function returns that handle.
GetOpenAI(handle, key) ==
  IF handle = "null" /\ key THEN "client" ELSE handle

\* ------------------------------------------------------ classifySentiment

NeutralFill(items) == [i \in 1..Len(items) |-> Str("neutral")]

\* A value JSON.parse can return, as far as indexing it goes: kind is the
\* JSON type, elems the elements of an array or the characters of a string.
Parsed(kind, elems) == [kind |-> kind, elems |-> elems]

\* The guard of line 42 with && in place of ||.
ClassifyFastPathBothNeeded(client, items) == client = "null" /\ Len(items) = 0

\* Line 42: if (!client || !items.length).
ClassifyFastPath(client, items) == client = "null" \/ Len(items) = 0

\* Lines 57-76: what the promise of classifySentiment resolves to once the
\* oracle call has settled with `reply`.  A rejected call, a reply without
\* content (content.trim() throws) and text JSON.parse rejects are caught;
\* anything JSON.parse accepts is returned as it is.
ClassifyOutcome(items, reply) ==
  IF reply.kind \in {"reject", "nocontent", "notjson"}
    THEN Parsed("array", NeutralFill(items))
    ELSE reply

\* cls[i] in JavaScript (i counted from 1 here); undefined past the end and
\* on numbers and objects.  Indexing null throws: see IndexThrows.
Index(cls, i) ==
  IF cls.kind \in {"array", "string"} /\ i <= Len(cls.elems)
    THEN cls.elems[i]
    ELSE Undefined

IndexThrows(cls) == cls.kind = "null"

\* ------------------------------------------------- sentiment assignment

\* item.sentiment = classifications[i] || 'neutral'
SentimentOf(cls, i) ==
  IF Truthy(Index(cls, i)) THEN Index(cls, i) ELSE Str("neutral")

AssignSentiments(items, cls) ==
  [i \in 1..Len(items) |-> [items[i] EXCEPT !.sentiment = SentimentOf(cls, i)]]

\* forEach over a non-empty list reads cls[0].
AssignThrows(items, cls) == Len(items) > 0 /\ IndexThrows(cls)

\* -------------------------------------------------------- countSentiments

ZeroCounts == [bullish |-> 0, neutral |-> 0, bearish |-> 0]

\* counts.hasOwnProperty(key): key is converted to a property key first.
HasOwnProperty(v) == v.str \in Labels

\* The body of the forEach callback.
CountOne(counts, v) ==
  IF HasOwnProperty(v)
    THEN [counts EXCEPT ![v.str] = @ + 1]
    ELSE [counts EXCEPT !.neutral = @ + 1]

RECURSIVE CountFrom(_, _, _)
CountFrom(items, i, counts) ==
  IF i > Len(items)
    THEN counts
    ELSE CountFrom(items, i + 1, CountOne(counts, items[i].sentiment))

countSentiments(items) == CountFrom(items, 1, ZeroCounts)

\* ---------------------------------------------------------- result shaping

\* A url is a sequence of tokens; the empty sequence is an absent url.
NoUrl == <<>>

Schemes == {"https://", "http://"}

PathTokens == {"/story/1", "/x/status/1"}

\* new URL(u) throws a TypeError unless u starts with a scheme and names a host.
UrlParses(u) == Len(u) >= 2 /\ u[1] \in Schemes /\ u[2] \notin PathTokens

\* new URL(u).hostname
Hostname(u) ==
  SelectSeq(SubSeq(u, 2, Len(u)), LAMBDA t : t \notin PathTokens)

\* String.prototype.replace(tok, repl) with a string pattern: the first
\* occurrence only.
RECURSIVE ReplaceFirst(_, _, _)
ReplaceFirst(s, tok, repl) ==
  IF s = <<>> THEN <<>>
  ELSE IF Head(s) = tok THEN repl \o Tail(s)
  ELSE <<Head(s)>> \o ReplaceFirst(Tail(s), tok, repl)

\* r.url ? new URL(r.url).hostname.replace('www.', '') : 'Unknown'
SourceOf(u) ==
  IF u = NoUrl THEN <<"Unknown">> ELSE ReplaceFirst(Hostname(u), "www.", <<>>)

SourceThrows(u) == u # NoUrl /\ ~UrlParses(u)

\* Array.prototype.slice(a, b).
Slice(s, a, b) == SubSeq(s, a + 1, IF b < Len(s) THEN b ELSE Len(s))

\* A string of len characters that starts at offset 0 of provider text id.
Text(id, len) ==
  [type |-> "string", str |-> IF len = 0 THEN "" ELSE id, from |-> 0,
   len |-> len]

Min(a, b) == IF a < b THEN a ELSE b

\* t?.slice(a, b) for 0 <= a <= b: undefined when t is absent.
SliceText(t, a, b) ==
  IF t = Undefined
    THEN Undefined
    ELSE [type |-> "string",
          str |-> IF Min(b, t.len) - Min(a, t.len) = 0 THEN "" ELSE t.str,
          from |-> t.from + Min(a, t.len),
          len |-> Min(b, t.len) - Min(a, t.len)]

\* r.text?.slice(0, 600) of a professional item.
ProfessionalTextCap == 600

\* The news text cut like a professional article body.
NewsTextCapAsProfessional == ProfessionalTextCap

\* r.text?.slice(0, 150) of a news item.
NewsTextCap == 150

\* r.text?.slice(0, 280) of a social item.
TwitterTextCap == 280

\* contentsByUrl[item.url]?.slice(0, 300) in part_002.
ContentsTextCap == 300

\* The professional item built from provider result r.
ShapeProfessionalItem(r) ==
  [title |-> r.title, url |-> r.url,
   text |-> SliceText(r.text, 0, ProfessionalTextCap),
   source |-> SourceOf(r.url), summary |-> Undefined, sentiment |-> Undefined]

\* The professional item of part_002: its text comes with the contents.
ShapeProfessionalBareItem(r) ==
  [title |-> r.title, url |-> r.url, text |-> Undefined,
   source |-> SourceOf(r.url), summary |-> Undefined, sentiment |-> Undefined]

\* The news item built from provider result r.
ShapeNewsItem(r) ==
  [title |-> r.title, url |-> r.url, text |-> SliceText(r.text, 0, NewsTextCap),
   source |-> SourceOf(r.url), summary |-> Undefined, sentiment |-> Undefined]

\* The social item built from provider result r: twitter.com becomes x.com.
ShapeTwitterItem(r) ==
  [title |-> r.title, url |-> ReplaceFirst(r.url, "twitter.com", <<"x.com">>),
   text |-> SliceText(r.text, 0, TwitterTextCap),
   source |-> <<>>, summary |-> Undefined, sentiment |-> Undefined]

ShapeProfessional(rs) == [i \in 1..Len(rs) |-> ShapeProfessionalItem(rs[i])]

ShapeProfessionalBare(rs) ==
  [i \in 1..Len(rs) |-> ShapeProfessionalBareItem(rs[i])]

ShapeNews(rs) == [i \in 1..Len(rs) |-> ShapeNewsItem(rs[i])]

ShapeTwitter(rs) == [i \in 1..Len(rs) |-> ShapeTwitterItem(rs[i])]

ShapeThrows(rs) == \E i \in 1..Len(rs) : SourceThrows(rs[i].url)

\* The server variants of the repository.
Variants == {"part_000", "server", "part_002", "two_request"}

HasLookup(v) == v \in {"server", "part_002"}

\* The cuts of the two variants taken for one another.
ProfessionalCutSwapped(v) == IF v = "server" THEN 10 ELSE 7

\* allProfessional.slice(0, n): n results are analysis candidates.
ProfessionalCut(v) == IF v = "server" THEN 7 ELSE 10

\* allProfessional.slice(n, m): the news slice ends at m.
NewsEnd(v) == IF v = "server" THEN 10 ELSE 15

\* ------------------------------------------------------------------ state

VARIABLES
  exaKey,        \* EXA_API_KEY is configured
  openaiKey,     \* OPENAI_API_KEY is configured
  variant,       \* which server file runs
  openai,        \* the process-wide handle: "null" or "client"
  pc,            \* where the request handler stands
  ticker,        \* req.body.ticker
  companyName,   \* what lookupCompanyName resolved to
  proSearch,     \* the professional search promise / professionalData
  twSearch,      \* the social search promise / twitterData
  professional,  \* the shaped professional items
  twitter,       \* the shaped social items
  news,          \* the shaped news items
  summaries,     \* the promises of generateSummary, one per professional item
  proCls,        \* the promise of classifySentiment(professional)
  twCls,         \* the promise of classifySentiment(twitter)
  responses,     \* the HTTP responses written for the request
  calls,         \* outbound calls the request has issued so far
  fnPc,          \* a helper function run on its own: where it stands
  fnItems,       \* its item list
  fnResult,      \* what it returned
  fnCalls,       \* the oracle calls it issued
  parked,        \* the local variables of a second request while the first runs
  seen,          \* per ticker, the response a caller has received for it
  page,          \* which page script runs in the browser
  dom,           \* the elements of the page the script writes
  fetches,       \* the requests of the page that are in flight
  started        \* how many searches the page has sent

env == <<exaKey, openaiKey, variant>>

reqVars ==
  <<pc, ticker, companyName, proSearch, twSearch, professional, twitter,
    news, summaries, proCls, twCls, responses, calls>>

pairVars == <<parked, seen>>

clientVars == <<page, dom, fetches, started>>

fnVars == <<fnPc, fnItems, fnResult, fnCalls, pairVars, clientVars>>

vars == <<env, openai, reqVars, fnVars>>

\* ---------------------------------------------------------- input domains

\* Sequences over S of length at most n.
SeqUpTo(S, n) == UNION {[1..k -> S] : k \in 0..n}

\* req.body.ticker: absent, empty, a string, a number.
Tickers == {Undefined, Str(""), Str("aapl"), Num("123")}

GoodUrl == <<"https://", "www.", "marketwatch.com", "/story/1">>

BadUrl == <<"marketwatch.com", "/story/1">>

TweetUrl == <<"https://", "twitter.com", "/x/status/1">>

\* Provider results of the professional search.
ProRaw ==
  {[title |-> "A", url |-> GoodUrl, text |-> Text("a", 601)],
   [title |-> "B", url |-> NoUrl, text |-> Undefined],
   [title |-> "C", url |-> BadUrl, text |-> Undefined]}

\* Provider results of the social search.
TwRaw ==
  {[title |-> "T", url |-> TweetUrl, text |-> Text("t", 281)],
   [title |-> "U", url |-> NoUrl, text |-> Undefined]}

\* What exaSearch settles with: it rejects, or resolves with the JSON body,
\* which is null or an object whose results are a list (an absent list
\* behaves as the empty one).
SearchOutcomes(raws) ==
  {[shape |-> "reject", results |-> <<>>], [shape |-> "null", results |-> <<>>]}
    \cup {[shape |-> "ok", results |-> rs] : rs \in SeqUpTo(raws, MaxResults)}

\* Elements the oracle may put in its array.
ReplyElems == {Str("bullish"), Str("very_bullish"), Null}

\* What the oracle call of classifySentiment settles with, for n items.
OracleReplies(n) ==
  {Parsed(k, <<>>) : k \in {"reject", "nocontent", "notjson", "null", "number", "object"}}
    \cup {Parsed("string", <<Str("o"), Str("k")>>)}
    \cup {Parsed("array", es) : es \in SeqUpTo(ReplyElems, n + 1)}

\* What the oracle call of lookupCompanyName settles with: it rejects, has
\* no content, or holds a text (given here trimmed).
NameReplies == {"reject", "nocontent", "", "AAPL", "Apple Inc."}

\* What the provider search of lookupCompanyName settles with.
LookupOutcomes == {"reject", "null", "empty", "nonempty"}

\* What exaGetContents settles with: it rejects, or resolves with a null
\* body or with the text it has for the url of the model that has content
\* (none, an empty one, a body).
ContentsOutcomes ==
  {[shape |-> "reject", text |-> Undefined], [shape |-> "null", text |-> Undefined]}
    \cup {[shape |-> "ok", text |-> v] :
            v \in {Undefined, Text("body", 0), Text("body", 301)}}

\* What the oracle call of generateSummary settles with: it rejects, has
\* no content, or holds a text (given here trimmed).
SummaryReplies == {"reject", "nocontent", "S"}

\* ------------------------------------------------------ promises, responses

Idle == [state |-> "idle", shape |-> "", results |-> <<>>, error |-> FALSE]

Pending == [state |-> "pending", shape |-> "", results |-> <<>>, error |-> FALSE]

\* Lines 200 and 212: .catch(err => ({ results: [], error: err.message })).
SearchData(o) ==
  IF o.shape = "reject"
    THEN [state |-> "settled", shape |-> "ok", results |-> <<>>, error |-> TRUE]
    ELSE [state |-> "settled", shape |-> o.shape, results |-> o.results, error |-> FALSE]

ClsIdle == [state |-> "idle", value |-> Parsed("", <<>>)]

ClsPending == [state |-> "pending", value |-> Parsed("", <<>>)]

ClsSettled(v) == [state |-> "settled", value |-> v]

SumPending == [state |-> "pending", value |-> Undefined]

SumSettled(v) == [state |-> "settled", value |-> v]

\* The outbound calls of a request: how many of each kind it issued and how
\* many of them have settled.
NoCalls == [search |-> 0, contents |-> 0, oracle |-> 0, settled |-> 0]

\* One more outbound call has settled.
Settled(cl) == [cl EXCEPT !.settled = @ + 1]

\* A join that goes on at the first promise that settles.
JoinedAtFirst(ps) == TRUE

\* Promise.all, seen from the promise that settles now: it resolves when
\* none of the other promises ps is pending any more.
Joined(ps) == \A p \in ps : p.state # "pending"

\* An HTTP response: the status and the fields of its body.
Response(status, body, cname, pro, tw, nws, tally) ==
  [status |-> status, body |-> body, companyName |-> cname,
   professional |-> pro, twitter |-> tw, news |-> nws,
   totalResults |-> Len(pro) + Len(tw) + Len(nws),
   tallied |-> tally,
   proSentiment |-> IF tally THEN countSentiments(pro) ELSE ZeroCounts,
   twitterSentiment |-> IF tally THEN countSentiments(tw) ELSE ZeroCounts]

ErrorResponse(status, body) ==
  Response(status, body, Undefined, <<>>, <<>>, <<>>, FALSE)

\* The two checks of lines 159-165 in the other order.
ValidateCredentialFirst(t, key) ==
  IF ~key THEN "500"
  ELSE IF ~Truthy(t) THEN "400"
  ELSE "ok"

\* Lines 159-165 without the credential check.
ValidateTickerOnly(t, key) ==
  IF ~Truthy(t) THEN "400" ELSE "ok"

\* Lines 159-165: "400" for a falsy ticker, then "500" without the provider
\* credential, else "ok".
Validate(t, key) ==
  IF ~Truthy(t) THEN "400"
  ELSE IF ~key THEN "500"
  ELSE "ok"

\* companyName !== upperTicker ? companyName : null (absent in part_000).
ResponseCompanyName(v, cname, upper) ==
  IF ~HasLookup(v) THEN Undefined
  ELSE IF cname # upper THEN Str(cname) ELSE Null

\* The names a query holds.  The professional query: "${companyName}"
\* ${upperTicker} stock news ... in server.js, "${companyName}" stock news
\* in part_002.
ProfessionalQueryNames(v, cname, upper) ==
  IF v = "part_002" THEN {cname} ELSE {cname, upper}

\* The social query: searchTerm is `${companyName} (${upperTicker})` when
\* the two differ, else upperTicker.
SearchTermNames(cname, upper) ==
  IF cname # upper THEN {cname, upper} ELSE {upper}

\* ------------------------------------------------- the handler, step by step

UpperTicker == ToUpperCase(ticker.str)

\* The catch block of the handler: 500 with {error, message}.
Failed == ErrorResponse(500, "error+message")

\* An exception inside the try block: the handler ends in its catch block.
\* pro, tw and nws are the lists as far as they were built.
Throw(pro, tw, nws, oa, cl) ==
  /\ professional' = pro
  /\ twitter' = tw
  /\ news' = nws
  /\ summaries' = <<>>
  /\ proCls' = ClsIdle
  /\ twCls' = ClsIdle
  /\ openai' = oa
  /\ calls' = cl
  /\ pc' = "done"
  /\ responses' = Append(responses, Failed)

\* Sentiment assignment, tallies and res.json, once both classifications
\* are known to be pv and tv.  Reading an index of null throws inside the
\* first forEach that runs over a non-empty list.
Finish(pro, tw, nws, pv, tv, oa, cl) ==
  LET proThrows == AssignThrows(pro, pv)
      throws == proThrows \/ AssignThrows(tw, tv)
      pro2 == IF proThrows THEN pro ELSE AssignSentiments(pro, pv)
      tw2 == IF throws THEN tw ELSE AssignSentiments(tw, tv)
  IN IF throws
       THEN Throw(pro2, tw2, nws, oa, cl)
       ELSE /\ professional' = pro2
            /\ twitter' = tw2
            /\ news' = nws
            /\ summaries' = <<>>
            /\ proCls' = ClsIdle
            /\ twCls' = ClsIdle
            /\ openai' = oa
            /\ calls' = cl
            /\ pc' = "done"
            /\ responses' =
                 Append(responses,
                        Response(200, "results",
                                 ResponseCompanyName(variant, companyName', UpperTicker'),
                                 pro2, tw2, nws, TRUE))

\* Promise.all([classifySentiment(professional), classifySentiment(twitter)]):
\* both bodies run up to their first await, so both oracle calls are issued
\* before either settles.  oa is the handle before the two calls.
StartClassify(pro, tw, nws, oa, cl) ==
  LET oa1 == GetOpenAI(oa, openaiKey)
      fastP == ClassifyFastPath(oa1, pro)
      oa2 == GetOpenAI(oa1, openaiKey)
      fastT == ClassifyFastPath(oa2, tw)
      cl2 == [cl EXCEPT !.oracle = @ + (IF fastP THEN 0 ELSE 1)
                                     + (IF fastT THEN 0 ELSE 1)]
  IN IF fastP /\ fastT
       THEN Finish(pro, tw, nws, Parsed("array", NeutralFill(pro)),
                   Parsed("array", NeutralFill(tw)), oa2, cl2)
       ELSE /\ professional' = pro
            /\ twitter' = tw
            /\ news' = nws
            /\ summaries' = <<>>
            /\ proCls' = IF fastP THEN ClsSettled(Parsed("array", NeutralFill(pro)))
                                  ELSE ClsPending
            /\ twCls' = IF fastT THEN ClsSettled(Parsed("array", NeutralFill(tw)))
                                 ELSE ClsPending
            /\ openai' = oa2
            /\ calls' = cl2
            /\ pc' = "classifying"
            /\ UNCHANGED responses

\* A two-request /api/search that classifies before it answers, as the
\* single-request variants do.
TwoRequestRespondEnriched(pro, tw, cl) == StartClassify(pro, tw, <<>>, openai, cl)

\* The two-request variant of /api/search: the shaped lists are returned
\* at once, without sentiment, summary, tallies or oracle call.
TwoRequestRespond(pro, tw, cl) ==
  /\ professional' = pro
  /\ twitter' = tw
  /\ news' = <<>>
  /\ UNCHANGED <<summaries, proCls, twCls, openai>>
  /\ calls' = cl
  /\ pc' = "done"
  /\ responses' =
       Append(responses, Response(200, "fast", Undefined, pro, tw, <<>>, FALSE))

\* ---- part_002: content fetch and summaries

\* generateSummary, line 120: if (!client || !text) return null.
SummaryFastPath(client, text) == client = "null" \/ ~Truthy(text)

\* generateSummary, lines 122-142: the value it resolves to once its oracle
\* call settled with `reply`.
SummaryOutcome(reply) ==
  IF reply \in {"reject", "nocontent"} THEN Null ELSE Str(reply)

\* contentsByUrl[item.url], given the text the provider has for GoodUrl.
TextFor(item, text) == IF item.url = GoodUrl THEN text ELSE Undefined

\* item.text = contentsByUrl[item.url]?.slice(0, 300)
WithTexts(pro, text) ==
  [i \in 1..Len(pro) |->
     [pro[i] EXCEPT !.text = SliceText(TextFor(pro[i], text), 0, ContentsTextCap)]]

WithSummaries(pro, summ) ==
  [i \in 1..Len(pro) |-> [pro[i] EXCEPT !.summary = summ[i].value]]

\* part_002 lines 288-313: the summaries are joined and stored, the social
\* items are shaped, classification starts.
AfterSummaries(pro, summ, td, oa, cl) ==
  IF td.shape = "null"
    THEN Throw(WithSummaries(pro, summ), <<>>, <<>>, oa, cl)
    ELSE StartClassify(WithSummaries(pro, summ), ShapeTwitter(td.results), <<>>,
                       oa, cl)

\* part_002 lines 274-288: one generateSummary call per item that has
\* content; the others resolve to null at once.
StartSummaries(pro, text, td, cl) ==
  LET wanted == {i \in 1..Len(pro) : Truthy(TextFor(pro[i], text))}
      oa == IF wanted = {} THEN openai ELSE GetOpenAI(openai, openaiKey)
      called == {i \in wanted : ~SummaryFastPath(oa, TextFor(pro[i], text))}
      summ == [i \in 1..Len(pro) |->
                 IF i \in called THEN SumPending ELSE SumSettled(Null)]
      cl2 == [cl EXCEPT !.oracle = @ + Cardinality(called)]
  IN IF called = {}
       THEN AfterSummaries(WithTexts(pro, text), summ, td, oa, cl2)
       ELSE /\ professional' = WithTexts(pro, text)
            /\ summaries' = summ
            /\ openai' = oa
            /\ calls' = cl2
            /\ pc' = "summaries"
            /\ UNCHANGED <<twitter, news, proCls, twCls, responses>>

\* part_002 lines 250-272: shaping of the professional items, then the
\* content fetch for their urls, if any has one.
JoinSearchesContents(pd, td, cl) ==
  LET proRaw == Slice(pd.results, 0, ProfessionalCut(variant))
  IN IF pd.shape = "null" \/ ShapeThrows(proRaw)
       THEN Throw(<<>>, <<>>, <<>>, openai, cl)
       ELSE IF \E i \in 1..Len(proRaw) : proRaw[i].url # NoUrl
         THEN /\ professional' = ShapeProfessionalBare(proRaw)
              /\ calls' = [cl EXCEPT !.contents = @ + 1]
              /\ pc' = "contents"
              /\ UNCHANGED <<twitter, news, summaries, proCls, twCls, openai,
                             responses>>
         ELSE StartSummaries(ShapeProfessionalBare(proRaw), Undefined, td, cl)

\* ---- part_000 and server.js

\* The code after the await of the two searches: slicing and shaping, then
\* classification.  An exception (a null body, an unparsable url) reaches
\* the catch block of the handler.
JoinSearches(pd, td, cl) ==
  LET all == pd.results
      proRaw == Slice(all, 0, ProfessionalCut(variant))
      newsRaw == Slice(all, ProfessionalCut(variant), NewsEnd(variant))
      throws == \/ pd.shape = "null"
                \/ td.shape = "null"
                \/ ShapeThrows(proRaw)
                \/ (variant # "two_request" /\ ShapeThrows(newsRaw))
  IN IF variant = "part_002"
       THEN JoinSearchesContents(pd, td, cl)
       ELSE IF throws
         THEN Throw(<<>>, <<>>, <<>>, openai, cl)
         ELSE IF variant = "two_request"
           THEN TwoRequestRespond(ShapeProfessional(proRaw),
                                  ShapeTwitter(td.results), cl)
           ELSE StartClassify(ShapeProfessional(proRaw), ShapeTwitter(td.results),
                              ShapeNews(newsRaw), openai, cl)

\* Promise.all([exaSearch(...).catch(...), exaSearch(...).catch(...)]).
StartSearches(cl) ==
  /\ proSearch' = Pending
  /\ twSearch' = Pending
  /\ calls' = [cl EXCEPT !.search = @ + 2]
  /\ pc' = "searching"
  /\ UNCHANGED <<professional, twitter, news, summaries, proCls, twCls,
                 responses>>

\* lookupCompanyName without its final `return ticker`.
LookupResultNoFallback(upper, r) ==
  IF r \in {"reject", "nocontent"} THEN "" ELSE r

\* What lookupCompanyName returns once its oracle call settled with r.
LookupResult(upper, r) ==
  IF r \in {"reject", "nocontent"} THEN upper ELSE r

\* A request arrives: validation, toUpperCase (outside the try block), then
\* the first outbound call.  A rejected handler promise is not caught by
\* the handler: the framework leaves the request unanswered or answers it
\* with its own error page.
Receive(t) ==
  /\ pc \in {"idle", "done", "rejected"}
  /\ fnPc = "off"
  /\ ticker' = t
  /\ companyName' = ""
  /\ professional' = <<>>
  /\ twitter' = <<>>
  /\ news' = <<>>
  /\ summaries' = <<>>
  /\ proCls' = ClsIdle
  /\ twCls' = ClsIdle
  /\ UNCHANGED <<env, openai, fnVars>>
  /\ IF Validate(t, exaKey) # "ok"
       THEN /\ responses' =
                 <<ErrorResponse(IF Validate(t, exaKey) = "400" THEN 400 ELSE 500,
                                 "error")>>
            /\ pc' = "done"
            /\ calls' = NoCalls
            /\ proSearch' = Idle
            /\ twSearch' = Idle
       ELSE IF t.type # "string"
         THEN /\ responses' \in {<<>>, <<ErrorResponse(500, "html")>>}
              /\ pc' = "rejected"
              /\ calls' = NoCalls
              /\ proSearch' = Idle
              /\ twSearch' = Idle
         ELSE IF HasLookup(variant)
           THEN /\ responses' = <<>>
                /\ pc' = "lookupSearch"
                /\ calls' = [NoCalls EXCEPT !.search = 1]
                /\ proSearch' = Idle
                /\ twSearch' = Idle
           ELSE /\ responses' = <<>>
                /\ proSearch' = Pending
                /\ twSearch' = Pending
                /\ calls' = [NoCalls EXCEPT !.search = 2]
                /\ pc' = "searching"

\* lookupCompanyName asking the oracle whatever its search returned.
LookupCallsOracleWithoutResults(o, oa) == o # "reject" /\ oa # "null"

\* lookupCompanyName, lines 121 and 129: the extraction call is made when
\* the search returned a result and there is a client.
LookupCallsOracle(o, oa) == o = "nonempty" /\ oa # "null"

\* The provider search of lookupCompanyName settles.
LookupSearchSettle(o) ==
  /\ pc = "lookupSearch"
  /\ UNCHANGED <<env, ticker, fnVars>>
  /\ LET oa == IF o = "nonempty" THEN GetOpenAI(openai, openaiKey) ELSE openai
     IN /\ openai' = oa
        /\ IF LookupCallsOracle(o, oa)
             THEN /\ pc' = "lookupOracle"
                  /\ calls' = [Settled(calls) EXCEPT !.oracle = @ + 1]
                  /\ UNCHANGED <<companyName, proSearch, twSearch, professional,
                                 twitter, news, summaries, proCls, twCls,
                                 responses>>
             ELSE /\ companyName' = UpperTicker
                  /\ StartSearches(Settled(calls))

\* The oracle call of lookupCompanyName settles.
LookupOracleSettle(r) ==
  /\ pc = "lookupOracle"
  /\ UNCHANGED <<env, ticker, openai, fnVars>>
  /\ companyName' = LookupResult(UpperTicker, r)
  /\ StartSearches(Settled(calls))

\* The professional search settles.
ProSearchSettle(o) ==
  /\ pc = "searching"
  /\ proSearch.state = "pending"
  /\ UNCHANGED <<env, ticker, companyName, twSearch, fnVars>>
  /\ proSearch' = SearchData(o)
  /\ IF ~Joined({twSearch})
       THEN /\ calls' = Settled(calls)
            /\ UNCHANGED <<pc, professional, twitter, news, summaries, proCls,
                           twCls, responses, openai>>
       ELSE JoinSearches(SearchData(o), twSearch, Settled(calls))

\* The social search settles.
TwSearchSettle(o) ==
  /\ pc = "searching"
  /\ twSearch.state = "pending"
  /\ UNCHANGED <<env, ticker, companyName, proSearch, fnVars>>
  /\ twSearch' = SearchData(o)
  /\ IF ~Joined({proSearch})
       THEN /\ calls' = Settled(calls)
            /\ UNCHANGED <<pc, professional, twitter, news, summaries, proCls,
                           twCls, responses, openai>>
       ELSE JoinSearches(proSearch, SearchData(o), Settled(calls))

\* part_002 lines 266-278: exaGetContents settles.  A rejection is caught
\* and leaves no content; reading .results of a null body throws.
ContentsSettle(o) ==
  /\ pc = "contents"
  /\ UNCHANGED <<env, ticker, companyName, proSearch, twSearch, fnVars>>
  /\ IF o.shape = "null"
       THEN Throw(professional, <<>>, <<>>, openai, Settled(calls))
       ELSE StartSummaries(professional, o.text, twSearch, Settled(calls))

\* The oracle call of generateSummary for item i settles.
SummarySettle(i, reply) ==
  /\ pc = "summaries"
  /\ i \in 1..Len(summaries)
  /\ summaries[i].state = "pending"
  /\ UNCHANGED <<env, ticker, companyName, proSearch, twSearch, fnVars>>
  /\ LET summ == [summaries EXCEPT ![i] = SumSettled(SummaryOutcome(reply))]
     IN IF ~Joined({summ[j] : j \in 1..Len(summ)})
          THEN /\ summaries' = summ
               /\ calls' = Settled(calls)
               /\ UNCHANGED <<pc, professional, twitter, news, proCls, twCls,
                              responses, openai>>
          ELSE AfterSummaries(professional, summ, twSearch, openai,
                              Settled(calls))

\* The oracle call of classifySentiment(professional) settles.
ProClassifySettle(reply) ==
  /\ pc = "classifying"
  /\ proCls.state = "pending"
  /\ UNCHANGED <<env, ticker, companyName, proSearch, twSearch, fnVars>>
  /\ IF ~Joined({twCls})
       THEN /\ proCls' = ClsSettled(ClassifyOutcome(professional, reply))
            /\ calls' = Settled(calls)
            /\ UNCHANGED <<pc, professional, twitter, news, summaries, twCls,
                           responses, openai>>
       ELSE Finish(professional, twitter, news,
                   ClassifyOutcome(professional, reply), twCls.value, openai,
                   Settled(calls))

\* The oracle call of classifySentiment(twitter) settles.
TwClassifySettle(reply) ==
  /\ pc = "classifying"
  /\ twCls.state = "pending"
  /\ UNCHANGED <<env, ticker, companyName, proSearch, twSearch, fnVars>>
  /\ IF ~Joined({proCls})
       THEN /\ twCls' = ClsSettled(ClassifyOutcome(twitter, reply))
            /\ calls' = Settled(calls)
            /\ UNCHANGED <<pc, professional, twitter, news, summaries, proCls,
                           responses, openai>>
       ELSE Finish(professional, twitter, news, proCls.value,
                   ClassifyOutcome(twitter, reply), openai, Settled(calls))

\* The local variables of a handler that has not been called.
IdleLocals ==
  [pc |-> "idle", ticker |-> Undefined, companyName |-> "", proSearch |-> Idle,
   twSearch |-> Idle, professional |-> <<>>, twitter |-> <<>>, news |-> <<>>,
   summaries |-> <<>>, proCls |-> ClsIdle, twCls |-> ClsIdle,
   responses |-> <<>>, calls |-> NoCalls]

\* Tickers of the requests that run side by side.
PairTickers == {Undefined, Str("aapl"), Str("msft")}

NoneSeen == [t \in {k.str : k \in PairTickers} |-> <<>>]

\* No second request, no response received yet.
PairOff == parked = IdleLocals /\ seen = NoneSeen

\* A sentiment bar of the page: the widths of its three segments in
\* percent and the three count labels next to it.  The markup of the page
\* is not part of the sources: the bar starts empty, its labels at 0.
InitialBar ==
  [bullish |-> 0, neutral |-> 100, bearish |-> 0,
   bullishCount |-> 0, neutralCount |-> 0, bearishCount |-> 0]

\* The elements the page script writes, before any search: nothing is
\* shown (for an element with a `hidden` class, TRUE means it is visible).
InitialDom ==
  [error |-> FALSE, results |-> FALSE, loadingSearch |-> FALSE,
   loadingTicker |-> "", searchBtnDisabled |-> FALSE,
   enrichmentLoading |-> FALSE,
   proCount |-> 0, twitterCount |-> 0,
   professionalFeed |-> <<>>, twitterFeed |-> <<>>,
   pro |-> InitialBar, twitter |-> InitialBar]

\* No page is open.
ClientOff ==
  /\ page = "none"
  /\ dom = InitialDom
  /\ fetches = {}
  /\ started = 0

FnOff ==
  /\ fnPc = "off"
  /\ fnItems = <<>>
  /\ fnResult = Parsed("", <<>>)
  /\ fnCalls = 0

Init ==
  /\ exaKey \in BOOLEAN
  /\ openaiKey \in BOOLEAN
  /\ variant \in Variants
  /\ openai = "null"
  /\ pc = "idle"
  /\ ticker = Undefined
  /\ companyName = ""
  /\ proSearch = Idle
  /\ twSearch = Idle
  /\ professional = <<>>
  /\ twitter = <<>>
  /\ news = <<>>
  /\ summaries = <<>>
  /\ proCls = ClsIdle
  /\ twCls = ClsIdle
  /\ responses = <<>>
  /\ calls = NoCalls
  /\ FnOff
  /\ PairOff
  /\ ClientOff

Next ==
  \/ \E t \in Tickers : Receive(t)
  \/ \E o \in LookupOutcomes : LookupSearchSettle(o)
  \/ \E r \in NameReplies : LookupOracleSettle(r)
  \/ \E o \in SearchOutcomes(ProRaw) : ProSearchSettle(o)
  \/ \E o \in SearchOutcomes(TwRaw) : TwSearchSettle(o)
  \/ \E o \in ContentsOutcomes : ContentsSettle(o)
  \/ \E i \in 1..MaxResults, reply \in SummaryReplies : SummarySettle(i, reply)
  \/ \E reply \in OracleReplies(Len(professional)) : ProClassifySettle(reply)
  \/ \E reply \in OracleReplies(Len(twitter)) : TwClassifySettle(reply)

Spec == Init /\ [][Next]_vars

\* ------------------------------------- classifySentiment run on its own

\* The server side of the state while a helper function runs on its own.
ServerIdle ==
  /\ exaKey = TRUE
  /\ variant = "part_000"
  /\ pc = "idle"
  /\ ticker = Str("aapl")
  /\ companyName = ""
  /\ proSearch = Idle
  /\ twSearch = Idle
  /\ professional = <<>>
  /\ twitter = <<>>
  /\ news = <<>>
  /\ summaries = <<>>
  /\ proCls = ClsIdle
  /\ twCls = ClsIdle
  /\ responses = <<>>
  /\ calls = NoCalls

\* Items classifySentiment is called with.
ClassifyItems ==
  {ShapeProfessionalItem([title |-> "A", url |-> GoodUrl, text |-> Text("a", 601)]),
   ShapeTwitterItem([title |-> "T", url |-> TweetUrl, text |-> Text("t", 281)])}

InitClassify ==
  /\ ServerIdle
  /\ openaiKey \in BOOLEAN
  /\ openai = "null"
  /\ fnPc = "start"
  /\ fnItems \in SeqUpTo(ClassifyItems, MaxItems)
  /\ fnResult = Parsed("", <<>>)
  /\ fnCalls = 0
  /\ PairOff
  /\ ClientOff

\* Lines 40-58: the call up to its first await.
ClassifyCall ==
  /\ fnPc = "start"
  /\ openai' = GetOpenAI(openai, openaiKey)
  /\ IF ClassifyFastPath(openai', fnItems)
       THEN /\ fnResult' = Parsed("array", NeutralFill(fnItems))
            /\ fnPc' = "resolved"
            /\ UNCHANGED fnCalls
       ELSE /\ fnCalls' = fnCalls + 1
            /\ fnPc' = "awaiting"
            /\ UNCHANGED fnResult
  /\ UNCHANGED <<env, reqVars, fnItems, pairVars, clientVars>>

\* Lines 58-76: the oracle call settles and the function resolves.
ClassifyReply(reply) ==
  /\ fnPc = "awaiting"
  /\ fnResult' = ClassifyOutcome(fnItems, reply)
  /\ fnPc' = "resolved"
  /\ UNCHANGED <<env, openai, reqVars, fnItems, fnCalls, pairVars, clientVars>>

NextClassify ==
  \/ ClassifyCall
  \/ \E reply \in OracleReplies(Len(fnItems)) : ClassifyReply(reply)

SpecClassify == InitClassify /\ [][NextClassify]_vars

\* --------------------------------------- countSentiments run on its own

\* Values item.sentiment may hold when countSentiments runs.
CountValues ==
  {Str("bullish"), Str("neutral"), Str("bearish"), Str("very_bullish"),
   Str(""), Undefined, Null, Arr1("bullish")}

CountItems ==
  {[title |-> "A", url |-> NoUrl, text |-> Undefined, source |-> <<"Unknown">>,
    summary |-> Undefined, sentiment |-> v] : v \in CountValues}

InitCount ==
  /\ ServerIdle
  /\ openaiKey = FALSE
  /\ openai = "null"
  /\ fnPc = "start"
  /\ fnItems \in SeqUpTo(CountItems, MaxItems)
  /\ fnResult = ZeroCounts
  /\ fnCalls = 0
  /\ PairOff
  /\ ClientOff

CountRun ==
  /\ fnPc = "start"
  /\ fnResult' = countSentiments(fnItems)
  /\ fnPc' = "counted"
  /\ UNCHANGED <<env, openai, reqVars, fnItems, fnCalls, pairVars, clientVars>>

NextCount == CountRun

SpecCount == InitCount /\ [][NextCount]_vars

\* ------------------------------------------- result shaping run on its own

PlainUrl == <<"https://", "example.com", "/story/1">>

\* A host that holds www. after its first label.
WwwLaterUrl == <<"https://", "news.", "www.", "example.com", "/story/1">>

\* A tweet url that holds twitter.com twice.
DoubleTweetUrl == <<"https://", "twitter.com", "/", "twitter.com", "/x/status/1">>

UpperTweetUrl == <<"https://", "Twitter.com", "/x/status/1">>

\* Lengths of provider texts around the caps.
TextLens == {0, 150, 151, 280, 281, 300, 301, 600, 601}

ShapeTexts == {Undefined} \cup {Text("p", n) : n \in TextLens}

\* The result a professional search may hold at one position.
ProSpecials ==
  {[title |-> 0, url |-> u, text |-> t] :
     u \in {GoodUrl, NoUrl, BadUrl, WwwLaterUrl}, t \in ShapeTexts}

\* The result a social search may hold at one position.
TwSpecials ==
  {[title |-> 0, url |-> u, text |-> t] :
     u \in {TweetUrl, NoUrl, DoubleTweetUrl, UpperTweetUrl}, t \in ShapeTexts}

\* n results, the i-th titled i: `special` at position p, a plain result
\* with url u elsewhere.
RawList(n, p, special, u) ==
  [i \in 1..n |->
     IF i = p THEN [special EXCEPT !.title = i]
              ELSE [title |-> i, url |-> u, text |-> Text("q", 10)]]

RawLists(specials, u) ==
  {<<>>} \cup {RawList(n, p, sp, u) : n \in 1..MaxShape, p \in 1..MaxShape,
                                     sp \in specials}

\* What the content fetch of part_002 has for GoodUrl: the text of the
\* result that carries this url.
ContentsOf(raws) ==
  IF \E i \in 1..Len(raws) : raws[i].url = GoodUrl
    THEN raws[CHOOSE i \in 1..Len(raws) : raws[i].url = GoodUrl].text
    ELSE Undefined

InitShape ==
  /\ exaKey = TRUE
  /\ openaiKey = FALSE
  /\ openai = "null"
  /\ variant \in {"part_000", "server", "part_002"}
  /\ pc = "idle"
  /\ ticker = Str("aapl")
  /\ companyName = ""
  /\ proSearch = Idle
  /\ twSearch = Idle
  /\ professional = <<>>
  /\ twitter = <<>>
  /\ news = <<>>
  /\ summaries = <<>>
  /\ proCls = ClsIdle
  /\ twCls = ClsIdle
  /\ responses = <<>>
  /\ calls = NoCalls
  /\ \/ fnPc = "professional" /\ fnItems \in RawLists(ProSpecials, PlainUrl)
     \/ fnPc = "twitter" /\ fnItems \in RawLists(TwSpecials, TweetUrl)
  /\ fnResult = [threw |-> FALSE, professional |-> <<>>, news |-> <<>>,
                 twitter |-> <<>>]
  /\ fnCalls = 0
  /\ PairOff
  /\ ClientOff

\* Slicing and shaping of professionalData.results.
ShapeProfessionalRun ==
  /\ fnPc = "professional"
  /\ LET proRaw == Slice(fnItems, 0, ProfessionalCut(variant))
         newsRaw == IF variant = "part_002"
                      THEN <<>>
                      ELSE Slice(fnItems, ProfessionalCut(variant), NewsEnd(variant))
     IN fnResult' =
          IF ShapeThrows(proRaw) \/ ShapeThrows(newsRaw)
            THEN [fnResult EXCEPT !.threw = TRUE]
            ELSE [fnResult EXCEPT
                    !.professional =
                      IF variant = "part_002"
                        THEN WithTexts(ShapeProfessionalBare(proRaw),
                                       ContentsOf(proRaw))
                        ELSE ShapeProfessional(proRaw),
                    !.news = ShapeNews(newsRaw)]
  /\ fnPc' = "shaped professional"
  /\ UNCHANGED <<env, openai, reqVars, fnItems, fnCalls, pairVars, clientVars>>

\* Shaping of twitterData.results.
ShapeTwitterRun ==
  /\ fnPc = "twitter"
  /\ fnResult' = [fnResult EXCEPT !.twitter = ShapeTwitter(fnItems)]
  /\ fnPc' = "shaped twitter"
  /\ UNCHANGED <<env, openai, reqVars, fnItems, fnCalls, pairVars, clientVars>>

NextShape == ShapeProfessionalRun \/ ShapeTwitterRun

SpecShape == InitShape /\ [][NextShape]_vars

\* ------------------------------------------ POST /api/enrich (two-request)

\* Item lists a caller submits to /api/enrich.
EnrichProItems ==
  {ShapeProfessionalItem([title |-> "A", url |-> GoodUrl, text |-> Text("a", 601)]),
   ShapeProfessionalItem([title |-> "B", url |-> NoUrl, text |-> Undefined])}

EnrichTwItems ==
  {ShapeTwitterItem([title |-> "T", url |-> TweetUrl, text |-> Text("t", 281)])}

\* An assignment that keeps only the items the classification has an
\* entry for.
EnrichAssignClassifiedOnly(items, cls) ==
  [i \in 1..(IF cls.kind = "array" /\ Len(cls.elems) < Len(items)
               THEN Len(cls.elems) ELSE Len(items)) |->
     [items[i] EXCEPT !.sentiment =
        IF IsLabel(Index(cls, i)) THEN Index(cls, i) ELSE Str("neutral")]]

\* Every submitted item, in order, with the label the classification has
\* at its index, or neutral when it has none.
EnrichAssign(items, cls) ==
  [i \in 1..Len(items) |->
     [items[i] EXCEPT !.sentiment =
        IF IsLabel(Index(cls, i)) THEN Index(cls, i) ELSE Str("neutral")]]

\* The enrich response once both classifications are known.
EnrichRespond(pro, tw, pv, tv, cl) ==
  /\ professional' = EnrichAssign(pro, pv)
  /\ twitter' = EnrichAssign(tw, tv)
  /\ proCls' = ClsIdle
  /\ twCls' = ClsIdle
  /\ calls' = cl
  /\ pc' = "done"
  /\ responses' =
       <<Response(200, "enriched", Undefined, EnrichAssign(pro, pv),
                  EnrichAssign(tw, tv), <<>>, TRUE)>>

\* A caller submits pro and tw: both classifications start.
EnrichReceive(pro, tw) ==
  /\ variant = "two_request"
  /\ pc \in {"idle", "done", "rejected"}
  /\ fnPc = "off"
  /\ UNCHANGED <<env, fnVars>>
  /\ ticker' = Str("AAPL")
  /\ companyName' = ""
  /\ proSearch' = Idle
  /\ twSearch' = Idle
  /\ news' = <<>>
  /\ summaries' = <<>>
  /\ LET oa == GetOpenAI(openai, openaiKey)
         fastP == ClassifyFastPath(oa, pro)
         fastT == ClassifyFastPath(oa, tw)
         cl == [NoCalls EXCEPT !.oracle = (IF fastP THEN 0 ELSE 1)
                                          + (IF fastT THEN 0 ELSE 1)]
     IN /\ openai' = oa
        /\ IF fastP /\ fastT
             THEN EnrichRespond(pro, tw, Parsed("array", NeutralFill(pro)),
                                Parsed("array", NeutralFill(tw)), cl)
             ELSE /\ professional' = pro
                  /\ twitter' = tw
                  /\ proCls' = IF fastP
                                 THEN ClsSettled(Parsed("array", NeutralFill(pro)))
                                 ELSE ClsPending
                  /\ twCls' = IF fastT
                                THEN ClsSettled(Parsed("array", NeutralFill(tw)))
                                ELSE ClsPending
                  /\ calls' = cl
                  /\ pc' = "enriching"
                  /\ responses' = <<>>

\* The classification of the submitted professional items settles.
EnrichProSettle(reply) ==
  /\ pc = "enriching"
  /\ proCls.state = "pending"
  /\ UNCHANGED <<env, openai, ticker, companyName, proSearch, twSearch, news,
                 summaries, fnVars>>
  /\ IF ~Joined({twCls})
       THEN /\ proCls' = ClsSettled(ClassifyOutcome(professional, reply))
            /\ calls' = Settled(calls)
            /\ UNCHANGED <<pc, professional, twitter, twCls, responses>>
       ELSE EnrichRespond(professional, twitter,
                          ClassifyOutcome(professional, reply), twCls.value,
                          Settled(calls))

\* The classification of the submitted social items settles.
EnrichTwSettle(reply) ==
  /\ pc = "enriching"
  /\ twCls.state = "pending"
  /\ UNCHANGED <<env, openai, ticker, companyName, proSearch, twSearch, news,
                 summaries, fnVars>>
  /\ IF ~Joined({proCls})
       THEN /\ twCls' = ClsSettled(ClassifyOutcome(twitter, reply))
            /\ calls' = Settled(calls)
            /\ UNCHANGED <<pc, professional, twitter, proCls, responses>>
       ELSE EnrichRespond(professional, twitter, proCls.value,
                          ClassifyOutcome(twitter, reply), Settled(calls))

InitEnrich == Init /\ variant = "two_request"

NextEnrich ==
  \/ \E pro \in SeqUpTo(EnrichProItems, MaxItems),
        tw \in SeqUpTo(EnrichTwItems, MaxItems) : EnrichReceive(pro, tw)
  \/ \E reply \in OracleReplies(Len(professional)) : EnrichProSettle(reply)
  \/ \E reply \in OracleReplies(Len(twitter)) : EnrichTwSettle(reply)

SpecEnrich == InitEnrich /\ [][NextEnrich]_vars

\* ------------------------------------------ two requests side by side

\* What the outbound calls of a request for ticker t settle with: every
\* request for one ticker hears the same.
ScriptOf(t) ==
  IF t = "aapl"
    THEN [lookup |-> "nonempty", name |-> "Apple Inc.",
          pro |-> [shape |-> "ok",
                   results |-> <<[title |-> "A", url |-> GoodUrl,
                                  text |-> Text("a", 601)]>>],
          tw |-> [shape |-> "ok",
                  results |-> <<[title |-> "T", url |-> TweetUrl,
                                 text |-> Text("t", 281)]>>],
          contents |-> [shape |-> "ok", text |-> Text("body", 301)],
          summary |-> "S",
          proCls |-> Parsed("array", <<Str("bullish")>>),
          twCls |-> Parsed("array", <<Null>>)]
    ELSE [lookup |-> "empty", name |-> "reject",
          pro |-> [shape |-> "ok",
                   results |-> <<[title |-> "B", url |-> NoUrl,
                                  text |-> Undefined]>>],
          tw |-> [shape |-> "reject", results |-> <<>>],
          contents |-> [shape |-> "reject", text |-> Undefined],
          summary |-> "reject",
          proCls |-> Parsed("array", <<Str("very_bullish")>>),
          twCls |-> Parsed("notjson", <<>>)]

\* The local variables of the running handler.
Locals ==
  [pc |-> pc, ticker |-> ticker, companyName |-> companyName,
   proSearch |-> proSearch, twSearch |-> twSearch,
   professional |-> professional, twitter |-> twitter, news |-> news,
   summaries |-> summaries, proCls |-> proCls, twCls |-> twCls,
   responses |-> responses, calls |-> calls]

\* A handler that keeps its item lists in variables of the module: the
\* continuation finds what the other request left there.
ResumeSharedItems(saved) ==
  [saved EXCEPT !.professional = professional, !.twitter = twitter]

\* What a continuation finds in the variables of its closure: what its own
\* handler call left there.
Resume(saved) == saved

\* The event loop runs a continuation of the other request: the running
\* handler is suspended at its await and the other one goes on.
Switch ==
  /\ fnPc = "off"
  /\ parked' = Locals
  /\ pc' = Resume(parked).pc
  /\ ticker' = Resume(parked).ticker
  /\ companyName' = Resume(parked).companyName
  /\ proSearch' = Resume(parked).proSearch
  /\ twSearch' = Resume(parked).twSearch
  /\ professional' = Resume(parked).professional
  /\ twitter' = Resume(parked).twitter
  /\ news' = Resume(parked).news
  /\ summaries' = Resume(parked).summaries
  /\ proCls' = Resume(parked).proCls
  /\ twCls' = Resume(parked).twCls
  /\ responses' = Resume(parked).responses
  /\ calls' = Resume(parked).calls
  /\ UNCHANGED <<env, openai, seen, fnPc, fnItems, fnResult, fnCalls, clientVars>>

\* The caller of the running request receives the response.
Observe ==
  /\ pc = "done"
  /\ Len(responses) = 1
  /\ seen[ticker.str] = <<>>
  /\ seen' = [seen EXCEPT ![ticker.str] = responses]
  /\ UNCHANGED <<env, openai, reqVars, fnPc, fnItems, fnResult, fnCalls, parked,
                 clientVars>>

InitPair ==
  /\ Init
  /\ exaKey
  /\ variant \in {"part_000", "server", "part_002"}

NextPair ==
  \/ \E t \in PairTickers : Receive(t)
  \/ LookupSearchSettle(ScriptOf(ticker.str).lookup)
  \/ LookupOracleSettle(ScriptOf(ticker.str).name)
  \/ ProSearchSettle(ScriptOf(ticker.str).pro)
  \/ TwSearchSettle(ScriptOf(ticker.str).tw)
  \/ ContentsSettle(ScriptOf(ticker.str).contents)
  \/ \E i \in 1..MaxResults : SummarySettle(i, ScriptOf(ticker.str).summary)
  \/ ProClassifySettle(ScriptOf(ticker.str).proCls)
  \/ TwClassifySettle(ScriptOf(ticker.str).twCls)
  \/ Switch
  \/ Observe

SpecPair == InitPair /\ [][NextPair]_vars

\* ----------------------------------------------------- the page scripts

\* The two page scripts: src/public/app.js (one request per search) and
\* src/unnamed/part_001 (search, then enrich).
Pages == {"app", "part_001"}

\* Most searches the user of a page starts.
MaxSearches == 2

\* Most items in one list of a response the page receives.
MaxFeed == 1

\* What the user may have typed in the ticker input.
TypedTickers == {"", " ", "aapl"}

\* String.prototype.trim on the inputs of the model.
Trim(s) == IF s = " " THEN "" ELSE s

\* A tally as the page receives it: an object, truthy.
Tally(counts) ==
  [type |-> "object", str |-> "[object Object]", bullish |-> counts.bullish,
   neutral |-> counts.neutral, bearish |-> counts.bearish]

\* Math.round(x * 100) for x = count / total: the nearest integer, a half
\* rounded up.  (For the totals of the model count / total * 100 is exact
\* in floating point whenever it ends in .5: these are eighths.)
RoundPct(count, total) == (200 * count + total) \div (2 * total)

\* displaySentimentBar(prefix, sentiment, total) on the bar `prefix` names:
\* without a tally or with no item the bar is reset and the count labels
\* are left as they are.
DisplaySentimentBar(bar, sentiment, total) ==
  IF ~Truthy(sentiment) \/ total = 0
    THEN [bar EXCEPT !.bullish = 0, !.neutral = 100, !.bearish = 0]
    ELSE [bullish |-> RoundPct(sentiment.bullish, total),
          neutral |-> RoundPct(sentiment.neutral, total),
          bearish |-> RoundPct(sentiment.bearish, total),
          bullishCount |-> sentiment.bullish,
          neutralCount |-> sentiment.neutral,
          bearishCount |-> sentiment.bearish]

ShowLoading(d, t) ==
  [d EXCEPT !.loadingTicker = t, !.loadingSearch = TRUE,
            !.searchBtnDisabled = TRUE]

HideLoading(d) == [d EXCEPT !.loadingSearch = FALSE, !.searchBtnDisabled = FALSE]

ShowEnrichmentLoading(d) == [d EXCEPT !.enrichmentLoading = TRUE]

\* A hideEnrichmentLoading that does nothing.
HideEnrichmentLoadingForgotten(d) == d

HideEnrichmentLoading(d) == [d EXCEPT !.enrichmentLoading = FALSE]

ShowError(d) == [d EXCEPT !.error = TRUE]

HideError(d) == [d EXCEPT !.error = FALSE]

HideResults(d) == [d EXCEPT !.results = FALSE]

\* displayResults(data) of app.js.
DisplayResultsApp(d, data) ==
  [d EXCEPT !.results = TRUE,
            !.pro = DisplaySentimentBar(d.pro, data.proSentiment,
                                        Len(data.professional)),
            !.proCount = Len(data.professional),
            !.professionalFeed = data.professional,
            !.twitter = DisplaySentimentBar(d.twitter, data.twitterSentiment,
                                            Len(data.twitter)),
            !.twitterCount = Len(data.twitter),
            !.twitterFeed = data.twitter]

\* displayResults(data, isEnriched) of part_001.
DisplayResults(d, data, isEnriched) ==
  [d EXCEPT !.results = TRUE,
            !.proCount = Len(data.professional),
            !.pro = IF isEnriched /\ Truthy(data.proSentiment)
                      THEN DisplaySentimentBar(d.pro, data.proSentiment,
                                               Len(data.professional))
                      ELSE DisplaySentimentBar(d.pro, Null, 0),
            !.professionalFeed = data.professional,
            !.twitterCount = Len(data.twitter),
            !.twitter = IF isEnriched /\ Truthy(data.twitterSentiment)
                          THEN DisplaySentimentBar(d.twitter, data.twitterSentiment,
                                                   Len(data.twitter))
                          ELSE DisplaySentimentBar(d.twitter, Null, 0),
            !.twitterFeed = data.twitter]

\* The try block of enrichResults once the response is there.
DisplayEnrichment(d, enrichData) ==
  [d EXCEPT !.pro = DisplaySentimentBar(d.pro, enrichData.proSentiment,
                                        Len(enrichData.professional)),
            !.twitter = DisplaySentimentBar(d.twitter, enrichData.twitterSentiment,
                                            Len(enrichData.twitter)),
            !.professionalFeed = enrichData.professional,
            !.twitterFeed = enrichData.twitter]

\* The server side, left alone by the page script.
serverVars == <<env, openai, reqVars, fnPc, fnItems, fnResult, fnCalls, pairVars>>

\* Labels of the items in the responses the page receives.
PageLabels == {Str("bearish")}

\* An item of a response is known by the search that returned it and its
\* place in the list; its sentiment is absent or a label.
FeedItem(n, i, v) == [search |-> n, pos |-> i, sentiment |-> v]

\* The item lists a response to search n may hold, with sentiments drawn
\* from vs.
FeedLists(n, vs) ==
  UNION {{[i \in 1..k |-> FeedItem(n, i, f[i])] : f \in [1..k -> vs]} :
           k \in 0..MaxFeed}

\* A request of the page in flight: the search request of search n, or the
\* enrich request that carries the lists search n returned.
SearchFetch(n, t) ==
  [id |-> n, url |-> "/api/search", ticker |-> t, professional |-> <<>>,
   twitter |-> <<>>]

EnrichFetch(n, searchData) ==
  [id |-> n, url |-> "/api/enrich", ticker |-> searchData.ticker,
   professional |-> searchData.professional, twitter |-> searchData.twitter]

\* A fetch that rejects or whose body is not JSON, and a response with a
\* status outside 200-299 and a JSON body.
FailedResponses == {[kind |-> "reject"], [kind |-> "error"]}

\* The 200 responses of /api/search to request f: the single-request
\* servers answer with classified items and their tallies, the
\* two-request server with the bare lists.
SearchResponses(f) ==
  FailedResponses
    \cup {[kind |-> "ok", ticker |-> f.ticker, professional |-> pro,
           twitter |-> tw,
           proSentiment |-> IF page = "app" THEN Tally(countSentiments(pro))
                                            ELSE Undefined,
           twitterSentiment |-> IF page = "app" THEN Tally(countSentiments(tw))
                                                ELSE Undefined] :
            pro \in FeedLists(f.id, IF page = "app" THEN PageLabels ELSE {Undefined}),
            tw \in FeedLists(f.id, IF page = "app" THEN PageLabels ELSE {Undefined})}

\* The 200 responses of /api/enrich to request f: the submitted lists with
\* a label on every item, and their tallies.
EnrichResponses(f) ==
  FailedResponses
    \cup {[kind |-> "ok",
           professional |-> EnrichAssign(f.professional, Parsed("array", pv)),
           twitter |-> EnrichAssign(f.twitter, Parsed("array", tv)),
           proSentiment |->
             Tally(countSentiments(EnrichAssign(f.professional, Parsed("array", pv)))),
           twitterSentiment |->
             Tally(countSentiments(EnrichAssign(f.twitter, Parsed("array", tv))))] :
            pv \in [1..Len(f.professional) -> PageLabels],
            tv \in [1..Len(f.twitter) -> PageLabels]}

\* handleSearch up to its first await.
HandleSearch(typed) ==
  LET t == ToUpperCase(Trim(typed))
  IN IF t = ""
       THEN /\ dom' = ShowError(dom)
            /\ UNCHANGED <<fetches, started>>
       ELSE /\ started < MaxSearches
            /\ dom' = ShowLoading(HideResults(HideError(dom)), t)
            /\ started' = started + 1
            /\ fetches' = fetches \cup {SearchFetch(started + 1, t)}

\* A click on the search button: a disabled button dispatches no click.
Click(typed) ==
  /\ page \in Pages
  /\ ~dom.searchBtnDisabled
  /\ HandleSearch(typed)
  /\ UNCHANGED <<serverVars, page>>

\* The Enter key in the ticker input.
EnterKey(typed) ==
  /\ page \in Pages
  /\ HandleSearch(typed)
  /\ UNCHANGED <<serverVars, page>>

\* handleSearch after its awaits: the response to search request f is
\* there (fetch and response.json() are taken as one step).
SearchSettle(f, resp) ==
  /\ f \in fetches
  /\ f.url = "/api/search"
  /\ UNCHANGED <<serverVars, page, started>>
  /\ IF resp.kind # "ok"
       THEN /\ dom' = ShowError(HideLoading(dom))
            /\ fetches' = fetches \ {f}
       ELSE IF page = "app"
         THEN /\ dom' = DisplayResultsApp(HideLoading(dom), resp)
              /\ fetches' = fetches \ {f}
         ELSE /\ dom' = ShowEnrichmentLoading(
                          DisplayResults(HideLoading(dom), resp, FALSE))
              /\ fetches' = (fetches \ {f}) \cup {EnrichFetch(f.id, resp)}

\* enrichResults after its awaits: try, catch and finally.
EnrichSettle(f, resp) ==
  /\ f \in fetches
  /\ f.url = "/api/enrich"
  /\ UNCHANGED <<serverVars, page, started>>
  /\ dom' = HideEnrichmentLoading(IF resp.kind = "ok"
                                    THEN DisplayEnrichment(dom, resp)
                                    ELSE dom)
  /\ fetches' = fetches \ {f}

InitClient ==
  /\ ServerIdle
  /\ openaiKey = TRUE
  /\ openai = "null"
  /\ FnOff
  /\ PairOff
  /\ page \in Pages
  /\ dom = InitialDom
  /\ fetches = {}
  /\ started = 0

NextClient ==
  \/ \E typed \in TypedTickers : Click(typed)
  \/ \E typed \in TypedTickers : EnterKey(typed)
  \/ \E f \in fetches : \E resp \in SearchResponses(f) : SearchSettle(f, resp)
  \/ \E f \in fetches : \E resp \in EnrichResponses(f) : EnrichSettle(f, resp)

SpecClient == InitClient /\ [][NextClient]_vars

\* ------------------------------------- displaySentimentBar run on its own

\* Largest total displaySentimentBar is called with on its own.
MaxTotal == 8

TotalOf(sentiment) == sentiment.bullish + sentiment.neutral + sentiment.bearish

InitBar ==
  /\ ServerIdle
  /\ openaiKey = TRUE
  /\ openai = "null"
  /\ fnPc = "bar"
  /\ fnItems \in {t \in {Tally([bullish |-> b, neutral |-> n, bearish |-> r]) :
                            b \in 0..MaxTotal, n \in 0..MaxTotal,
                            r \in 0..MaxTotal} :
                     TotalOf(t) <= MaxTotal}
  /\ fnResult = InitialBar
  /\ fnCalls = 0
  /\ PairOff
  /\ ClientOff

\* displaySentimentBar(prefix, sentiment, total) with the length of the
\* tallied list as total.
DisplayBarRun ==
  /\ fnPc = "bar"
  /\ fnResult' = DisplaySentimentBar(fnResult, fnItems, TotalOf(fnItems))
  /\ fnPc' = "displayed"
  /\ UNCHANGED <<env, openai, reqVars, fnItems, fnCalls, pairVars, clientVars>>

SpecBar == InitBar /\ [][DisplayBarRun]_vars

\* ------------------------------------------------------------------ claims

Handled == pc \in {"done", "rejected"}

ItemsOf(resp) == resp.professional \o resp.twitter

AllNeutral(items) ==
  \A i \in 1..Len(items) : items[i].sentiment = Str("neutral")

\* C1: in every 200 response of the single-request /api/search, every item
\* of professional and of twitter carries a sentiment that is exactly one of
\* bullish, neutral, bearish, whatever the oracle replied.
C1_SentimentInClosedSet ==
  \A k \in 1..Len(responses) :
    (responses[k].status = 200 /\ responses[k].body = "results")
      => \A i \in 1..Len(ItemsOf(responses[k])) :
           IsLabel(ItemsOf(responses[k])[i].sentiment)

\* C2: with a valid ticker and a provider credential, the step in which the
\* last classification settles always writes a 200 response, never a 500,
\* and a list whose classification was rejected, was not JSON or was JSON
\* other than an array is all neutral in it.
C2_ClassificationNeverFailsRequest ==
  [][\A reply \in {Parsed(k, <<>>) :
                     k \in {"reject", "nocontent", "notjson", "null", "number", "object"}}
                   \cup {Parsed("string", <<Str("o"), Str("k")>>)} :
       /\ (ProClassifySettle(reply) /\ pc' = "done")
            => /\ responses'[1].status = 200
               /\ AllNeutral(responses'[1].professional)
       /\ (TwClassifySettle(reply) /\ pc' = "done")
            => /\ responses'[1].status = 200
               /\ AllNeutral(responses'[1].twitter)]_vars

\* C3: classifySentiment always resolves to an array with exactly
\* items.length entries, each one of bullish, neutral, bearish, whatever
\* the oracle returned.
C3_ClassifyReturnsLabelPerItem ==
  fnPc = "resolved"
    => /\ fnResult.kind = "array"
       /\ Len(fnResult.elems) = Len(fnItems)
       /\ \A i \in 1..Len(fnItems) : IsLabel(fnResult.elems[i])

\* The number of items whose sentiment is exactly the string label l.
ExactCount(items, l) ==
  Cardinality({i \in 1..Len(items) : items[i].sentiment = Str(l)})

\* C4: the tally of countSentiments sums to the number of items, bullish
\* and bearish count the exact matches, and every value outside the three
\* labels is counted as neutral.
C4_TallyCountsExactMatches ==
  fnPc = "counted"
    => /\ fnResult.bullish + fnResult.neutral + fnResult.bearish = Len(fnItems)
       /\ fnResult.bullish = ExactCount(fnItems, "bullish")
       /\ fnResult.bearish = ExactCount(fnItems, "bearish")
       /\ fnResult.neutral =
            Len(fnItems) - ExactCount(fnItems, "bullish")
              - ExactCount(fnItems, "bearish")

\* No result of the list makes shaping throw.
WellFormed(data) == data.shape = "ok" /\ ~ShapeThrows(data.results)

\* C5: with a valid ticker and a credential, when a search rejected the
\* request still ends with a 200 response whose list fed by the failed
\* search is empty and whose other list holds the other search's shaped
\* results.  (Stated for part_000 and server.js and for the case that the
\* other search returned a well-formed body, which the original claim
\* includes.)
C5_RejectedSearchStillAnswers200 ==
  (pc = "done" /\ variant \in {"part_000", "server"}
     /\ proSearch.state = "settled" /\ twSearch.state = "settled"
     /\ (proSearch.error \/ twSearch.error)
     /\ WellFormed(proSearch) /\ WellFormed(twSearch))
    => /\ Len(responses) = 1
       /\ responses[1].status = 200
       /\ proSearch.error => responses[1].professional = <<>>
       /\ twSearch.error => responses[1].twitter = <<>>
       /\ Len(responses[1].professional) =
            Len(Slice(proSearch.results, 0, ProfessionalCut(variant)))
       /\ Len(responses[1].twitter) = Len(twSearch.results)
       /\ \A i \in 1..Len(responses[1].twitter) :
            responses[1].twitter[i].title = twSearch.results[i].title
       /\ \A i \in 1..Len(responses[1].professional) :
            responses[1].professional[i].title = proSearch.results[i].title

\* C6: every request the handler has finished with received exactly one
\* response, and an exception raised after the ticker and credential checks
\* passed (a truthy ticker that is no string among them) was answered by the
\* top-level handler with 500 and {error, message}.
C6_ExactlyOneResponse ==
  Handled
    => /\ Len(responses) = 1
       /\ (Validate(ticker, exaKey) = "ok" /\ ticker.type # "string")
            => responses[1] = Failed

\* C7: a missing or empty ticker is answered 400 with a body holding
\* `error`, with no outbound call, whether or not the provider credential
\* is configured.
C7_MissingTickerIs400 ==
  (Handled /\ ~Truthy(ticker))
    => /\ pc = "done"
       /\ responses = <<ErrorResponse(400, "error")>>
       /\ calls = NoCalls
       /\ proSearch = Idle /\ twSearch = Idle
       /\ proCls = ClsIdle /\ twCls = ClsIdle

C7_Witness ==
  /\ pc = "done"
  /\ ticker = Str("")
  /\ ~exaKey
  /\ Len(responses) = 1
  /\ responses[1].status = 400

\* C8: without a provider credential a request with a ticker is answered
\* 500 before any outbound call: no resolution search, no professional or
\* social search and no oracle call is ever started.
C8_NoCredentialIs500BeforeAnyCall ==
  ~exaKey
    => /\ calls = NoCalls
       /\ pc \in {"idle", "done"}
       /\ proSearch = Idle /\ twSearch = Idle
       /\ proCls = ClsIdle /\ twCls = ClsIdle
       /\ (pc = "done" /\ Truthy(ticker))
            => responses = <<ErrorResponse(500, "error")>>

C8_Witness ==
  /\ pc = "done"
  /\ ~exaKey
  /\ ticker = Str("aapl")
  /\ variant = "server"
  /\ Len(responses) = 1
  /\ responses[1].status = 500
  /\ calls = NoCalls

\* C9: without an oracle credential, or with an empty item list,
\* classifySentiment returns an all-neutral array as long as its input and
\* issues no oracle call.
C9_FastPathNeutralNoCall ==
  (fnPc # "start" /\ (~openaiKey \/ Len(fnItems) = 0))
    => /\ fnPc = "resolved"
       /\ fnResult = Parsed("array", NeutralFill(fnItems))
       /\ Len(fnResult.elems) = Len(fnItems)
       /\ fnCalls = 0

C9_Witness ==
  /\ fnPc = "resolved"
  /\ ~openaiKey
  /\ Len(fnItems) = 2
  /\ fnResult.elems = <<Str("neutral"), Str("neutral")>>
  /\ fnCalls = 0

\* C10: in two-request mode /api/search issues the professional and the
\* social search only, never an oracle call or a content fetch, and the
\* items of its response carry no sentiment and no summary and come
\* without tallies.
C10_TwoRequestSearchIsUnenriched ==
  variant = "two_request"
    => /\ calls.oracle = 0
       /\ calls.contents = 0
       /\ calls.search \in {0, 2}
       /\ openai = "null"
       /\ proCls = ClsIdle /\ twCls = ClsIdle
       /\ \A k \in 1..Len(responses) :
            responses[k].status = 200
              => /\ responses[k].body = "fast"
                 /\ calls.search = 2
                 /\ ~responses[k].tallied
                 /\ \A i \in 1..Len(ItemsOf(responses[k])) :
                      /\ ItemsOf(responses[k])[i].sentiment = Undefined
                      /\ ItemsOf(responses[k])[i].summary = Undefined

C10_Witness ==
  /\ variant = "two_request"
  /\ openaiKey
  /\ pc = "done"
  /\ Len(responses) = 1
  /\ responses[1].status = 200
  /\ Len(responses[1].professional) > 0
  /\ Len(responses[1].twitter) > 0
  /\ calls = [search |-> 2, contents |-> 0, oracle |-> 0, settled |-> 2]

\* The same items in the same order, whatever their sentiment.
SameItems(a, b) ==
  /\ Len(a) = Len(b)
  /\ \A i \in 1..Len(a) : [a[i] EXCEPT !.sentiment = Undefined]
                            = [b[i] EXCEPT !.sentiment = Undefined]

\* C11: the step that answers POST /api/enrich writes one 200 response
\* whose professional and twitter lists hold exactly the submitted items,
\* in the submitted order, each with a sentiment.
C11_EnrichKeepsOrderAndCount ==
  [][(pc' = "done" /\ Len(responses') = 1 /\ responses'[1].body = "enriched")
       => \E pro \in SeqUpTo(EnrichProItems, MaxItems),
             tw \in SeqUpTo(EnrichTwItems, MaxItems) :
            /\ (pc = "enriching" => pro = professional /\ tw = twitter)
            /\ (pc # "enriching" => EnrichReceive(pro, tw))
            /\ responses'[1].status = 200
            /\ SameItems(responses'[1].professional, pro)
            /\ SameItems(responses'[1].twitter, tw)
            /\ \A i \in 1..Len(pro) :
                 responses'[1].professional[i].sentiment # Undefined
            /\ \A i \in 1..Len(tw) :
                 responses'[1].twitter[i].sentiment # Undefined]_vars

C11_Witness ==
  /\ variant = "two_request"
  /\ pc = "done"
  /\ Len(responses) = 1
  /\ responses[1].body = "enriched"
  /\ calls.oracle = 2
  /\ Len(responses[1].professional) = 2
  /\ responses[1].professional[1].title = "A"
  /\ responses[1].professional[2].title = "B"
  /\ responses[1].professional[1].sentiment = Str("neutral")
  /\ responses[1].professional[2].sentiment = Str("bullish")
  /\ Len(responses[1].twitter) = 1

\* The provider result the i-th professional item was built from, and the
\* one the i-th news item was built from.
NewsRawAt(results, i) == results[ProfessionalCut(variant) + i]

NoHostFor(u) == u = NoUrl \/ ~UrlParses(u)

\* C12: when both searches have been joined with well-formed bodies, the
\* request has not failed, every professional and news item has a
\* non-empty source, and the source is "Unknown" whenever the provider
\* url is absent or does not parse.
C12_SourceNeverFailsRequest ==
  [][(pc = "searching" /\ pc' # "searching"
        /\ proSearch'.shape # "null" /\ twSearch'.shape # "null")
       => /\ Len(responses') = 1 => responses'[1].status = 200
          /\ Len(professional') =
               Len(Slice(proSearch'.results, 0, ProfessionalCut(variant)))
          /\ \A i \in 1..Len(professional') :
               /\ professional'[i].source # <<>>
               /\ NoHostFor(proSearch'.results[i].url)
                    => professional'[i].source = <<"Unknown">>
          /\ \A i \in 1..Len(news') :
               /\ news'[i].source # <<>>
               /\ NoHostFor(NewsRawAt(proSearch'.results, i).url)
                    => news'[i].source = <<"Unknown">>]_vars

\* The host with a leading www. label removed.
StripLeadingWww(h) == IF h # <<>> /\ Head(h) = "www." THEN Tail(h) ELSE h

ShapedProfessional == fnPc = "shaped professional" /\ ~fnResult.threw

\* C13: for every provider result with a parsable url the source of the
\* shaped professional or news item is the url's host without a leading
\* www. label, and the host itself when it does not start with www.
C13_SourceIsHostWithoutLeadingWww ==
  ShapedProfessional
    => /\ \A i \in 1..Len(fnResult.professional) :
            UrlParses(fnItems[i].url)
              => fnResult.professional[i].source
                   = StripLeadingWww(Hostname(fnItems[i].url))
       /\ \A i \in 1..Len(fnResult.news) :
            UrlParses(NewsRawAt(fnItems, i).url)
              => fnResult.news[i].source
                   = StripLeadingWww(Hostname(NewsRawAt(fnItems, i).url))

\* s with every occurrence of tok replaced by repl.
RECURSIVE ReplaceAll(_, _, _)
ReplaceAll(s, tok, repl) ==
  IF s = <<>> THEN <<>>
  ELSE (IF Head(s) = tok THEN repl ELSE <<Head(s)>>)
         \o ReplaceAll(Tail(s), tok, repl)

\* C14: the url of every shaped social item is the provider url with
\* every occurrence of twitter.com (in this very case) replaced by x.com;
\* the urls of professional and news items are the provider urls.
C14_TwitterUrlReplacedEverywhere ==
  /\ fnPc = "shaped twitter"
       => /\ Len(fnResult.twitter) = Len(fnItems)
          /\ \A i \in 1..Len(fnItems) :
               fnResult.twitter[i].url
                 = ReplaceAll(fnItems[i].url, "twitter.com", <<"x.com">>)
  /\ ShapedProfessional
       => /\ \A i \in 1..Len(fnResult.professional) :
               fnResult.professional[i].url = fnItems[i].url
          /\ \A i \in 1..Len(fnResult.news) :
               fnResult.news[i].url = NewsRawAt(fnItems, i).url

\* C15: professional holds the first 10 provider results and news the
\* following up to 5 (the first 7 and the following up to 3 in server.js),
\* in provider order: the i-th result, titled i, is the i-th professional
\* item or, past the cut, the news item at its distance from the cut, and
\* results past the end of the news slice are in neither list.
C15_SplitByPosition ==
  (ShapedProfessional /\ variant \in {"part_000", "server"})
    => LET cut == IF variant = "server" THEN 7 ELSE 10
           end == IF variant = "server" THEN 10 ELSE 15
           n == Len(fnItems)
       IN /\ Len(fnResult.professional) = Min(n, cut)
          /\ Len(fnResult.news) = (IF n > cut THEN Min(n, end) - cut ELSE 0)
          /\ \A i \in 1..Len(fnResult.professional) :
               fnResult.professional[i].title = i
          /\ \A i \in 1..Len(fnResult.news) :
               fnResult.news[i].title = cut + i

C15_Witness ==
  /\ ShapedProfessional
  /\ variant = "part_000"
  /\ Len(fnItems) = 16
  /\ Len(fnResult.professional) = 10
  /\ Len(fnResult.news) = 5
  /\ fnResult.news[5].title = 15

\* t was cut from the start of the provider text src.
PrefixOf(t, src) ==
  \/ t = Undefined
  \/ /\ src # Undefined
     /\ t.from = 0
     /\ src.from = 0
     /\ t.len <= src.len
     /\ t.len > 0 => t.str = src.str

\* The provider text the i-th professional item takes its text from.
ProviderTextAt(i) ==
  IF variant = "part_002"
    THEN TextFor(fnResult.professional[i], ContentsOf(Slice(fnItems, 0, 10)))
    ELSE fnItems[i].text

\* C16: every text of a shaped item is a prefix of the provider's text, of
\* at most 600 characters for a professional item, 150 for a news item and
\* 280 for a social item, in part_000, server.js and part_002.
C16_TextsArePrefixesWithinCaps ==
  /\ ShapedProfessional
       => /\ \A i \in 1..Len(fnResult.professional) :
               /\ PrefixOf(fnResult.professional[i].text, ProviderTextAt(i))
               /\ fnResult.professional[i].text # Undefined
                    => fnResult.professional[i].text.len <= 600
          /\ \A i \in 1..Len(fnResult.news) :
               /\ PrefixOf(fnResult.news[i].text, NewsRawAt(fnItems, i).text)
               /\ fnResult.news[i].text # Undefined
                    => fnResult.news[i].text.len <= 150
  /\ fnPc = "shaped twitter"
       => \A i \in 1..Len(fnResult.twitter) :
            /\ PrefixOf(fnResult.twitter[i].text, fnItems[i].text)
            /\ fnResult.twitter[i].text # Undefined
                 => fnResult.twitter[i].text.len <= 280

C16_Witness ==
  /\ ShapedProfessional
  /\ variant = "part_000"
  /\ Len(fnResult.news) = 1
  /\ fnItems[11].text = Text("p", 151)
  /\ fnResult.news[1].text = Text("p", 150)

\* C17: lookupCompanyName never rejects (the handler goes on to the two
\* searches without having answered), and it resolves to the ticker it was
\* given when its provider search rejects, has a null body or no results,
\* when no oracle credential is configured, and when its oracle call
\* rejects or replies without content.
C17_LookupFallsBackToTicker ==
  [][/\ pc \in {"lookupSearch", "lookupOracle"}
          => pc' \in {"lookupOracle", "searching"} /\ responses' = <<>>
     /\ \A o \in {"reject", "null", "empty"} :
          LookupSearchSettle(o)
            => companyName' = UpperTicker /\ pc' = "searching"
     /\ (LookupSearchSettle("nonempty") /\ ~openaiKey)
          => /\ companyName' = UpperTicker
             /\ pc' = "searching"
             /\ calls'.oracle = 0
     /\ \A r \in {"reject", "nocontent"} :
          LookupOracleSettle(r)
            => companyName' = UpperTicker /\ pc' = "searching"]_vars

C17_Witness ==
  /\ variant \in {"server", "part_002"}
  /\ pc = "searching"
  /\ ~openaiKey
  /\ ticker = Str("aapl")
  /\ companyName = "AAPL"
  /\ calls = [search |-> 3, contents |-> 0, oracle |-> 0, settled |-> 1]

Issued == calls.search + calls.contents + calls.oracle

C19_HandleConstructedAtMostOnce ==
  [][/\ openai' # "null" => openaiKey
     /\ openai # "null" => openai' = openai]_vars

C19_Witness ==
  /\ openai = "client"
  /\ pc = "classifying"
  /\ parked.pc = "classifying"
  /\ calls.oracle > 0
  /\ parked.calls.oracle > 0

NoContent(o) ==
  o.shape = "reject" \/ (o.shape = "ok" /\ ~Truthy(o.text))

AllSummariesNull(pro) == \A i \in 1..Len(pro) : pro[i].summary = Null

\* generateSummary issued an oracle call for this item and the call failed.
SummaryCallFailed(item) ==
  Truthy(item.text) /\ openai # "null" /\ item.summary = Null

\* What generateSummary does by itself (part of C21): without content or
\* without a client no summary call is issued and every summary is null; a
\* summary call that rejects or replies without content gives null; none
\* of these steps ends the request in the catch block as long as the social
\* search returned a body.
C21_SummaryDegradesToNull ==
  [][/\ \A o \in ContentsOutcomes :
          (ContentsSettle(o) /\ (NoContent(o) \/ (o.shape = "ok" /\ ~openaiKey)))
            => /\ pc' # "summaries"
               /\ twSearch.shape = "ok"
                    => /\ AllSummariesNull(professional')
                       /\ Len(professional') = Len(professional)
                       /\ pc' = "done" => responses'[1].status = 200
               /\ ~openaiKey => calls'.oracle = calls.oracle
     /\ \A i \in 1..MaxResults : \A r \in {"reject", "nocontent"} :
          (SummarySettle(i, r) /\ twSearch.shape = "ok")
            => /\ professional'[i].summary = Null
               /\ pc' = "done" => responses'[1].status = 200]_vars

\* C21: in part_002, a request whose content fetch left an item without
\* content, or whose summary call for an item failed, has that item's
\* summary null and is answered 200 (given that the social search returned
\* a body, which the claim takes for granted).
C21_FailedSummaryStillAnswers200 ==
  (/\ pc = "done"
   /\ variant = "part_002"
   /\ Len(responses) = 1
   /\ calls.contents = 1
   /\ twSearch.shape = "ok"
   /\ \E i \in 1..Len(professional) :
        \/ SummaryCallFailed(professional[i])
        \/ professional[i].summary = Null /\ ~Truthy(professional[i].text))
    => responses[1].status = 200

\* C22: in server.js and part_002 a request that passed validation issues
\* one resolution search and nothing else; the extraction call is issued
\* at most once, after that search settled, and only when it returned a
\* result and an oracle credential is configured; the professional and
\* social searches are started only once the resolution search, and the
\* extraction call if there is one, have settled.
C22_ResolutionBeforeSearches ==
  [][HasLookup(variant)
       => /\ pc' = "lookupSearch"
               => /\ calls' = [NoCalls EXCEPT !.search = 1]
                  /\ proSearch' = Idle /\ twSearch' = Idle
          /\ pc' = "lookupOracle"
               => /\ pc = "lookupSearch"
                  /\ \A o \in LookupOutcomes \ {"nonempty"} :
                       ~LookupSearchSettle(o)
                  /\ openaiKey
                  /\ calls' = [search |-> 1, contents |-> 0, oracle |-> 1,
                               settled |-> 1]
                  /\ proSearch' = Idle /\ twSearch' = Idle
          /\ (pc' = "searching" /\ pc # "searching")
               => /\ pc \in {"lookupSearch", "lookupOracle"}
                  /\ proSearch' = Pending /\ twSearch' = Pending
                  /\ calls'.search = 3
                  /\ calls'.oracle = (IF pc = "lookupOracle" THEN 1 ELSE 0)
                  /\ calls'.settled = 1 + calls'.oracle
          /\ (proSearch' # Idle \/ twSearch' # Idle)
               => pc' \notin {"lookupSearch", "lookupOracle"}]_vars

C22_Witness ==
  /\ HasLookup(variant)
  /\ pc = "searching"
  /\ proSearch = Pending
  /\ twSearch = Pending
  /\ companyName = "Apple Inc."
  /\ calls = [search |-> 3, contents |-> 0, oracle |-> 1, settled |-> 2]

Feeds(d) == <<d.professionalFeed, d.twitterFeed>>

Bars(d) == <<d.pro, d.twitter>>

\* C23: in part_001, when the enrich request of a search is sent the
\* lists of that search are on screen and the enrichment indicator shows;
\* a classified item is on screen only once the enrich request of its
\* search has been answered; a successful enrich response puts its lists
\* on screen; a failed or rejected one leaves feeds and bars as they were;
\* either way the enrichment indicator is hidden afterwards.
C23_EnrichAfterPhaseOne ==
  [][page = "part_001"
       => /\ \A f \in fetches' \ fetches :
               f.url = "/api/enrich"
                 => /\ dom'.results
                    /\ Feeds(dom') = <<f.professional, f.twitter>>
                    /\ dom'.enrichmentLoading
                    /\ \E g \in fetches : g.url = "/api/search" /\ g.id = f.id
          /\ \A k \in 1..2 : \A j \in 1..Len(Feeds(dom')[k]) :
               Feeds(dom')[k][j].sentiment # Undefined
                 => \A f \in fetches' : f.id # Feeds(dom')[k][j].search
          /\ \A f \in fetches : \A resp \in EnrichResponses(f) :
               EnrichSettle(f, resp)
                 => /\ ~dom'.enrichmentLoading
                    /\ resp.kind = "ok"
                         => Feeds(dom') = <<resp.professional, resp.twitter>>
                    /\ resp.kind # "ok"
                         => Feeds(dom') = Feeds(dom) /\ Bars(dom') = Bars(dom)]_vars

C23_Witness ==
  /\ page = "part_001"
  /\ started = 1
  /\ fetches = {}
  /\ dom.results
  /\ ~dom.error
  /\ ~dom.enrichmentLoading
  /\ dom.professionalFeed = <<FeedItem(1, 1, Undefined)>>
  /\ dom.twitterFeed = <<FeedItem(1, 1, Undefined)>>

\* Every item on screen was returned for search n.
FeedsOf(d, n) ==
  \A k \in 1..2 : \A j \in 1..Len(Feeds(d)[k]) : Feeds(d)[k][j].search = n

\* C24: in part_001, when the results on screen are those of the search
\* started last, an /api/enrich response, whichever search it belongs to,
\* leaves on screen items of the search started last only.
C24_StaleEnrichNeverOverwrites ==
  [][page = "part_001"
       => \A f \in fetches : \A resp \in EnrichResponses(f) :
            (EnrichSettle(f, resp) /\ dom.results /\ FeedsOf(dom, started))
              => FeedsOf(dom', started)]_vars

SearchesInFlight == {f \in fetches : f.url = "/api/search"}

\* C25: in both page scripts at most one /api/search request is in flight;
\* the loading indicator is visible and the search button disabled exactly
\* while one is; and the results on screen are never those of an older
\* search than one rendered before.
C25_OneSearchInFlight ==
  page \in Pages
    => /\ Cardinality(SearchesInFlight) <= 1
       /\ dom.loadingSearch <=> SearchesInFlight # {}
       /\ dom.searchBtnDisabled <=> SearchesInFlight # {}
       /\ (dom.results /\ SearchesInFlight = {}) => FeedsOf(dom, started)

\* The three count labels next to a bar.
CountLabels(bar) ==
  [bullish |-> bar.bullishCount, neutral |-> bar.neutralCount,
   bearish |-> bar.bearishCount]

\* C26: while results are on screen, the count labels of either bar are
\* the tally of the items shown in its feed.
C26_CountLabelsMatchFeed ==
  (page \in Pages /\ dom.results)
    => /\ CountLabels(dom.pro) = countSentiments(dom.professionalFeed)
       /\ CountLabels(dom.twitter) = countSentiments(dom.twitterFeed)

\* The searches of a request with company resolution have been started.
Resolved == HasLookup(variant) /\ calls.search = 3

\* C27: once lookupCompanyName has resolved, the company name is not
\* empty, each of the two queries names the ticker or a company name that
\* is not empty, and the companyName of a 200 response is null or a string
\* that is neither empty nor the uppercase ticker.
C27_CompanyNameNeverEmpty ==
  Resolved
    => /\ companyName # ""
       /\ ProfessionalQueryNames(variant, companyName, UpperTicker) # {""}
       /\ SearchTermNames(companyName, UpperTicker) # {""}
       /\ (pc = "done" /\ Len(responses) = 1 /\ responses[1].status = 200)
            => \/ responses[1].companyName = Null
               \/ /\ responses[1].companyName.type = "string"
                  /\ responses[1].companyName.str \notin {"", UpperTicker}

\* C28: for a tally of total > 0 items, the three widths displaySentimentBar
\* sets sum to 100.
C28_WidthsSumTo100 ==
  (fnPc = "displayed" /\ TotalOf(fnItems) > 0)
    => fnResult.bullish + fnResult.neutral + fnResult.bearish = 100

=============================================================================
